---- MODULE Spec2Model ----
(***************************************************************************)
(* Model of the orchest web client slice:                                  *)
(*   - fetchPipelineJson / useFetchPipelineJson  (hooks/useFetchPipelineJson.ts) *)
(*   - FileManagerLocalContextProvider.handleDelete (file manager)         *)
(* JavaScript values are encoded as tagged records so that `undefined`,    *)
(* `null`, numbers, booleans, strings and objects stay distinguishable.    *)
(***************************************************************************)
EXTENDS Integers, Sequences, FiniteSets, TLC

\* ---------------------------------------------------------------- bounds
MaxServices == 3      \* at most this many entries in `services`
MaxOrderIn == 2       \* explicit `order` values on the wire are 0..MaxOrderIn

\* ------------------------------------------------------- JavaScript values
Undefined == [type |-> "undefined"]
Null == [type |-> "null"]
Num(n) == [type |-> "number", value |-> n]
Bool(b) == [type |-> "boolean", value |-> b]
Str(s) == [type |-> "string", value |-> s]

\* @orchest/lib-utils hasValue: neither undefined nor null
hasValue(v) == v # Undefined /\ v # Null

Max2(a, b) == IF a >= b THEN a ELSE b

\* ------------------------------------------------------------ wire inputs
ServiceNames == {"a", "b"}

\* collation rank used by String.prototype.localeCompare on ServiceNames
CollationRank(n) == IF n = "a" THEN 1 ELSE 2

localeCompare(n1, n2) ==
  IF CollationRank(n1) < CollationRank(n2) THEN -1
  ELSE IF CollationRank(n1) > CollationRank(n2) THEN 1
  ELSE 0

OrderInputs == {Undefined, Null} \cup {Num(n) : n \in 0..MaxOrderIn}

ServiceInputs == [name : ServiceNames, order : OrderInputs]

\* the `services` object, as its entries in insertion order; the key of an
\* entry is its position
ServicesInputs ==
  {Undefined} \cup
  {[type |-> "object", entries |-> s] :
     s \in UNION {[1..n -> ServiceInputs] : n \in 0..MaxServices}}

SettingsInputs ==
  {Undefined} \cup
  [type : {"object"},
   auto_eviction : {Undefined, Bool(TRUE)},
   data_passing_memory_size : {Undefined, Str("2GB")}]

EmptyObject == [type |-> "object", keys |-> {}]

ParametersInputs == {Undefined, [type |-> "object", keys |-> {"lr"}]}

\* The defaults (lines 42-57) and the service ordering (lines 59-74) do not
\* read each other's members: every settings/parameters combination is taken
\* with a few services, and every services object with a few settings.
FewServices ==
  {Undefined,
   [type |-> "object", entries |-> <<>>],
   [type |-> "object", entries |-> <<[name |-> "b", order |-> Undefined],
                                     [name |-> "a", order |-> Num(1)]>>]}

FewSettings ==
  {Undefined,
   [type |-> "object", auto_eviction |-> Bool(TRUE),
    data_passing_memory_size |-> Undefined]}

PipelineJsonInputs ==
  [settings : SettingsInputs,
   parameters : ParametersInputs,
   services : FewServices]
  \cup
  [settings : FewSettings,
   parameters : {Undefined},
   services : ServicesInputs]

MalformedText == [wellFormed |-> FALSE]

\* JSON.stringify of a pipeline object: absent (undefined) members are not
\* written, which the encoding keeps as Undefined members
JSONstringify(obj) == [wellFormed |-> TRUE, doc |-> obj]

\* JSON.parse: a value, or a thrown SyntaxError
JSONparse(text) ==
  IF text.wellFormed
    THEN [threw |-> FALSE, value |-> text.doc]
    ELSE [threw |-> TRUE, error |-> "SyntaxError"]

SampleDoc == [settings |-> Undefined, parameters |-> Undefined, services |-> Undefined]

\* what fetcher(url) can resolve with
FetcherResults ==
  {[success |-> TRUE, pipeline_json |-> JSONstringify(d)] : d \in PipelineJsonInputs}
  \cup {[success |-> TRUE, pipeline_json |-> MalformedText],
        [success |-> FALSE, pipeline_json |-> MalformedText],
        [success |-> FALSE, pipeline_json |-> JSONstringify(SampleDoc)]}

\* -------------------------------------------------- fetchPipelineJson body
\* variant: the member defaults are filled in only for a missing `settings`
DefaultSettingsOnlyWhenAbsent(pipelineObj) ==
  IF pipelineObj.settings = Undefined
    THEN [type |-> "object", auto_eviction |-> Bool(FALSE),
          data_passing_memory_size |-> Str("1GB")]
    ELSE pipelineObj.settings

\* lines 42-57: defaults
DefaultSettings(pipelineObj) ==
  LET s0 == IF pipelineObj.settings = Undefined
              THEN [type |-> "object", auto_eviction |-> Undefined,
                    data_passing_memory_size |-> Undefined]
              ELSE pipelineObj.settings
      s1 == IF s0.auto_eviction = Undefined
              THEN [s0 EXCEPT !.auto_eviction = Bool(FALSE)] ELSE s0
      s2 == IF s1.data_passing_memory_size = Undefined
              THEN [s1 EXCEPT !.data_passing_memory_size = Str("1GB")] ELSE s1
  IN s2

DefaultParameters(pipelineObj) ==
  IF pipelineObj.parameters = Undefined THEN EmptyObject ELSE pipelineObj.parameters

DefaultServices(pipelineObj) ==
  IF pipelineObj.services = Undefined
    THEN [type |-> "object", entries |-> <<>>]
    ELSE pipelineObj.services

\* variant: the name comparison is made the wrong way round
compareServicesNamesReversed(a, b, maxOrder) ==
  IF ~hasValue(a[2].order) /\ ~hasValue(b[2].order)
    THEN [ret |-> localeCompare(b[2].name, a[2].name), maxOrder |-> maxOrder]
  ELSE IF ~hasValue(a[2].order) THEN [ret |-> -1, maxOrder |-> maxOrder]
  ELSE IF ~hasValue(b[2].order) THEN [ret |-> 1, maxOrder |-> maxOrder]
  ELSE [ret |-> a[2].order.value - b[2].order.value,
        maxOrder |-> Max2(maxOrder, Max2(a[2].order.value, b[2].order.value))]

\* lines 60-67: the comparator; it returns the comparison result and the
\* updated closure variable maxOrder.  a and b are entries <<key, service>>.
compareServices(a, b, maxOrder) ==
  IF ~hasValue(a[2].order) /\ ~hasValue(b[2].order)
    THEN [ret |-> localeCompare(a[2].name, b[2].name), maxOrder |-> maxOrder]
  ELSE IF ~hasValue(a[2].order) THEN [ret |-> -1, maxOrder |-> maxOrder]
  ELSE IF ~hasValue(b[2].order) THEN [ret |-> 1, maxOrder |-> maxOrder]
  ELSE [ret |-> a[2].order.value - b[2].order.value,
        maxOrder |-> Max2(maxOrder, Max2(a[2].order.value, b[2].order.value))]

\* Array.prototype.sort is stable; which pairs it hands to the comparator is
\* left to the engine.  Two engines are modelled: a linear insertion sort
\* and a binary insertion sort (short-array path of TimSort).
SortEngines == {"linear", "binary"}

InsertAt(sorted, pos, x) ==
  SubSeq(sorted, 1, pos) \o <<x>> \o SubSeq(sorted, pos + 1, Len(sorted))

RECURSIVE LinearInsert(_, _, _, _)
LinearInsert(sorted, x, j, maxOrder) ==
  IF j = 0 THEN [arr |-> InsertAt(sorted, 0, x), maxOrder |-> maxOrder]
  ELSE LET c == compareServices(sorted[j], x, maxOrder)
       IN IF c.ret > 0
            THEN LinearInsert(sorted, x, j - 1, c.maxOrder)
            ELSE [arr |-> InsertAt(sorted, j, x), maxOrder |-> c.maxOrder]

RECURSIVE BinaryInsert(_, _, _, _, _)
BinaryInsert(sorted, x, left, right, maxOrder) ==
  IF left >= right THEN [arr |-> InsertAt(sorted, left, x), maxOrder |-> maxOrder]
  ELSE LET mid == left + ((right - left) \div 2)
           c == compareServices(x, sorted[mid + 1], maxOrder)
       IN IF c.ret < 0
            THEN BinaryInsert(sorted, x, left, mid, c.maxOrder)
            ELSE BinaryInsert(sorted, x, mid + 1, right, c.maxOrder)

RECURSIVE SortFrom(_, _, _, _, _)
SortFrom(entries, i, sorted, maxOrder, engine) ==
  IF i > Len(entries) THEN [arr |-> sorted, maxOrder |-> maxOrder]
  ELSE LET r == IF engine = "linear"
                  THEN LinearInsert(sorted, entries[i], Len(sorted), maxOrder)
                  ELSE BinaryInsert(sorted, entries[i], 0, Len(sorted), maxOrder)
       IN SortFrom(entries, i + 1, r.arr, r.maxOrder, engine)

\* Object.entries(pipelineObj.services)
ObjectEntries(services) == [i \in 1..Len(services.entries) |-> <<i, services.entries[i]>>]

\* lines 59-67: maxOrder = 0, then the sort
sortedServices(services, engine) == SortFrom(ObjectEntries(services), 1, <<>>, 0, engine)

\* variant: only `undefined` counts as a missing order, `null` is kept
RECURSIVE AssignOrdersUndefinedOnly(_, _, _, _)
AssignOrdersUndefinedOnly(entries, sorted, i, maxOrder) ==
  IF i > Len(sorted) THEN entries
  ELSE LET key == sorted[i][1]
       IN IF entries[key].order = Undefined
            THEN AssignOrdersUndefinedOnly(
                   [entries EXCEPT ![key].order = Num(maxOrder + 1)],
                   sorted, i + 1, maxOrder + 1)
            ELSE AssignOrdersUndefinedOnly(entries, sorted, i + 1, maxOrder)

\* variant: every service is renumbered, whether it has an order or not
RECURSIVE AssignOrdersAlways(_, _, _, _)
AssignOrdersAlways(entries, sorted, i, maxOrder) ==
  IF i > Len(sorted) THEN entries
  ELSE AssignOrdersAlways(
         [entries EXCEPT ![sorted[i][1]].order = Num(maxOrder + 1)],
         sorted, i + 1, maxOrder + 1)

\* lines 69-74: add `order` where it has no value, walking the sorted entries
RECURSIVE AssignOrders(_, _, _, _)
AssignOrders(entries, sorted, i, maxOrder) ==
  IF i > Len(sorted) THEN entries
  ELSE LET key == sorted[i][1]
       IN IF ~hasValue(entries[key].order)
            THEN AssignOrders([entries EXCEPT ![key].order = Num(maxOrder + 1)],
                              sorted, i + 1, maxOrder + 1)
            ELSE AssignOrders(entries, sorted, i + 1, maxOrder)

NormalizeServices(services, engine) ==
  LET s == sortedServices(services, engine)
  IN [type |-> "object",
      entries |-> AssignOrders(services.entries, s.arr, 1, s.maxOrder)]

\* lines 40-76 after a successful parse
NormalizePipelineObj(pipelineObj, engine) ==
  [settings |-> DefaultSettings(pipelineObj),
   parameters |-> DefaultParameters(pipelineObj),
   services |-> NormalizeServices(DefaultServices(pipelineObj), engine)]

\* variant: the `success` flag of the payload is not looked at
ThenCallbackIgnoringSuccess(result, engine) ==
  LET parsed == JSONparse(result.pipeline_json)
  IN IF parsed.threw THEN parsed
     ELSE [threw |-> FALSE, value |-> NormalizePipelineObj(parsed.value, engine)]

\* lines 35-77: the `.then` callback: a returned object or a thrown error
ThenCallback(result, engine) ==
  IF ~result.success
    THEN [threw |-> TRUE, error |-> "Failed to fetch pipeline.json"]
  ELSE LET parsed == JSONparse(result.pipeline_json)
       IN IF parsed.threw THEN parsed
          ELSE [threw |-> FALSE, value |-> NormalizePipelineObj(parsed.value, engine)]

\* ------------------------------------------------------- file addresses
\* A combined path is the sequence <<root, ":", c1, c2, ...>>: the root name,
\* a colon, and the characters of the path ("/" separates segments; a file
\* name and the extension ".orchest" are single symbols).
MaxSelected == 2      \* at most this many entries in selectedFiles

ProjectDir == "/project-dir"
DataDir == "/data"

CombinedPaths ==
  {<<ProjectDir, ":", "/", "a", "/">>,
   <<ProjectDir, ":", "/", "a", "/", "p", ".orchest">>,
   <<ProjectDir, ":", "/", "p", ".orchest">>,
   <<ProjectDir, ":", "/", "c">>,
   <<DataDir, ":", "/", "p", ".orchest">>,
   <<DataDir, ":", "/", "a", "/">>}

\* @/utils/file unpackPath and its inverse
unpackPath(combinedPath) ==
  [root |-> combinedPath[1], path |-> SubSeq(combinedPath, 3, Len(combinedPath))]

packPath(file) == <<file.root, ":">> \o file.path

\* String.prototype.startsWith / endsWith on symbol sequences
startsWith(str, prefix) ==
  Len(prefix) <= Len(str) /\ SubSeq(str, 1, Len(prefix)) = prefix

endsWith(str, suffix) ==
  Len(suffix) <= Len(str)
    /\ SubSeq(str, Len(str) - Len(suffix) + 1, Len(str)) = suffix

\* path.replace(/^\//, "")
stripLeadingSlash(path) ==
  IF Len(path) > 0 /\ path[1] = "/" THEN Tail(path) ELSE path

\* @/utils/path basename: the last segment, ignoring a trailing slash
basename(str) ==
  LET trimmed == IF Len(str) > 0 /\ str[Len(str)] = "/"
                   THEN SubSeq(str, 1, Len(str) - 1) ELSE str
      slashes == {i \in 1..Len(trimmed) : trimmed[i] = "/"}
      last == IF slashes = {} THEN 0
              ELSE CHOOSE i \in slashes : \A j \in slashes : j <= i
  IN SubSeq(trimmed, last + 1, Len(trimmed))

\* child lies strictly below ancestor (same root, whole path segments); a
\* directory may be written with or without its trailing slash
isStrictDescendant(child, ancestor) ==
  LET dir == IF endsWith(ancestor, <<"/">>) THEN ancestor ELSE ancestor \o <<"/">>
  IN /\ child # ancestor
     /\ child # dir
     /\ startsWith(child, dir)

\* ./common filterRedundantChildPaths: drop every path that is a strict
\* descendant of another path of the list
filterRedundantChildPaths(paths) ==
  LET keep(p) == ~\E i \in 1..Len(paths) : isStrictDescendant(p, paths[i])
  IN SelectSeq(paths, keep)

\* flatten a sequence of sequences
RECURSIVE Flatten(_)
Flatten(seqs) == IF seqs = <<>> THEN <<>> ELSE Head(seqs) \o Flatten(Tail(seqs))

\* the members of a set of combined paths, in the fixed listing order of
\* the backend
RECURSIVE SetToSeq(_)
SetToSeq(S) ==
  IF S = {} THEN <<>>
  ELSE LET x == CHOOSE y \in S : TRUE IN <<x>> \o SetToSeq(S \ {x})

\* ./common findPipelineFiles: for a directory the pipeline-definition files
\* found below it, for a file the file itself when it is a `.orchest` file
findPipelineFiles(files, targets) ==
  LET found(t) ==
        IF endsWith(t.path, <<"/">>)
          THEN SetToSeq({f \in files :
                           /\ f.root = t.root
                           /\ startsWith(f.path, t.path)})
          ELSE IF endsWith(t.path, <<".orchest">>) THEN <<t>> ELSE <<>>
  IN Flatten([i \in 1..Len(targets) |-> found(targets[i])])

\* pipeline-definition files on the backend at the start
InitialFiles ==
  {[root |-> ProjectDir, path |-> <<"/", "p", ".orchest">>],
   [root |-> ProjectDir, path |-> <<"/", "a", "/", "p", ".orchest">>],
   [root |-> DataDir, path |-> <<"/", "p", ".orchest">>]}

\* the backend's DELETE of one file or directory
deleteOnBackend(files, target) ==
  {f \in files :
     ~(/\ f.root = target.root
       /\ \/ f.path = target.path
          \/ endsWith(target.path, <<"/">>) /\ startsWith(f.path, target.path))}

\* pipeline metadata: the path is relative to the project directory
PipelineUuidOf(path) ==
  IF path = <<"p", ".orchest">> THEN Str("u1") ELSE Str("u2")

\* @/hooks/useFetchPipelines fetchPipelines: the pipelines the backend
\* discovers in the project directory
fetchPipelines(files) ==
  LET mine == {f \in files : f.root = ProjectDir}
      metaOf(f) == [uuid |-> PipelineUuidOf(stripLeadingSlash(f.path)),
                    path |-> stripLeadingSlash(f.path)]
      asSeq == SetToSeq(mine)
  IN [i \in 1..Len(asSeq) |-> metaOf(asSeq[i])]

\* line 87-89: pipelines.find((pipeline) => pipeline.uuid === pipelineUuid)
findPipeline(pipelineList, uuid) ==
  LET hits == {i \in 1..Len(pipelineList) : pipelineList[i].uuid = uuid}
  IN IF hits = {} THEN Undefined
     ELSE pipelineList[CHOOSE i \in hits : \A j \in hits : i <= j]

\* variant: the raw selection is used instead of the filtered one
computeFilesToDeleteUnfiltered(selected, contextPath) ==
  IF \E i \in 1..Len(selected) : selected[i] = contextPath
    THEN selected
    ELSE <<contextPath>>

\* lines 133-135
computeFilesToDelete(selected, contextPath) ==
  IF \E i \in 1..Len(selected) : selected[i] = contextPath
    THEN filterRedundantChildPaths(selected)
    ELSE <<contextPath>>

\* lines 150-152
shouldShowPipelineFilePaths(fileBaseName, pathsThatContainsPipelineFiles) ==
  ~endsWith(fileBaseName, <<".orchest">>)
    /\ Len(pathsThatContainsPipelineFiles) > 0

\* lines 188-199: the redirect decision for one target
redirectsFor(fileToDelete, pipeline) ==
  LET path == unpackPath(fileToDelete).path
      pathToDelete == stripLeadingSlash(path)
      isDeletingPipelineFileDirectly ==
        pipeline # Undefined /\ pathToDelete = pipeline.path
      isDeletingParentFolder ==
        /\ endsWith(pathToDelete, <<"/">>)
        /\ pipeline # Undefined
        /\ startsWith(pipeline.path, pathToDelete)
  IN isDeletingPipelineFileDirectly \/ isDeletingParentFolder

shouldRedirect(targets, pipeline) ==
  \E i \in 1..Len(targets) : redirectsFor(targets[i], pipeline)

\* variant: Promise.allSettled, which never rejects
PromiseAllSettled(statuses) ==
  IF \A i \in 1..Len(statuses) : statuses[i] # "pending" THEN "fulfilled"
  ELSE "pending"

\* Promise.all over the deleteFile promises
PromiseAll(statuses) ==
  IF \E i \in 1..Len(statuses) : statuses[i] = "failed" THEN "rejected"
  ELSE IF \A i \in 1..Len(statuses) : statuses[i] = "ok" THEN "fulfilled"
  ELSE "pending"

\* one call made by a handleDelete invocation, as recorded in `calls`
Call(op, arg) == [op |-> op, arg |-> arg]

\* lines 178-182: one deleteFile(root, path) per target, in target order
deleteFileCalls(targets) ==
  [i \in 1..Len(targets) |-> Call("deleteFile", unpackPath(targets[i]))]

\* lines 186-211: what the confirm callback does once fetchPipelines resolved
callsAfterRefresh(redirect) ==
  <<Call("dispatch", Str("SET_PIPELINES")), Call("shouldRedirect", Bool(redirect))>>
  \o (IF redirect THEN <<Call("navigateTo", Str("pipeline"))>> ELSE <<>>)
  \o <<Call("resolve", Bool(TRUE))>>

\* ------------------------------------------------ cross-pipeline resolver
MaxPipelines == 2     \* at most this many pipelines in the project

PipelineUuids == <<"P1", "P2", "P3">>

Uuids ==
  {PipelineUuids[i] : i \in 1..(IF MaxPipelines < 3 THEN MaxPipelines ELSE 3)}

\* paths are sequences of segments; P1 and P3 live in p1/, P2 in the project
\* directory itself
PipelinePath(uuid) ==
  CASE uuid = "P1" -> <<"p1", "a.orchest">>
    [] uuid = "P2" -> <<"b.orchest">>
    [] OTHER -> <<"p1", "c.orchest">>

PipelineMetaData(uuid) == [uuid |-> uuid, path |-> PipelinePath(uuid)]

StepData(uuid, file_path) == [uuid |-> uuid, file_path |-> file_path]

\* Object.values(state.steps) of the pipeline definitions that can be loaded
StepsInputs(uuid) ==
  CASE uuid = "P1" ->
         { <<StepData("s1", <<"x.py">>)>>,
           <<StepData("s1", <<"y.py">>), StepData("s2", <<"..", "p1", "x.py">>)>>,
           <<StepData("s1", <<"x.py">>), StepData("s2", <<".", "x.py">>)>> }
    [] uuid = "P2" ->
         { <<StepData("s3", <<"p1", "x.py">>)>>,
           <<StepData("s3", <<"x.py">>)>> }
    [] OTHER ->
         { <<StepData("s4", <<"x.py">>)>> }

PipelineState(uuid, steps) == [uuid |-> uuid, steps |-> steps]

\* metadata lists: distinct pipelines in any order
MetadataInputs ==
  {m \in UNION {[1..n -> {PipelineMetaData(u) : u \in Uuids}] : n \in 0..MaxPipelines} :
     \A i, j \in 1..Len(m) : i # j => m[i] # m[j]}

Elements(array) == {array[i] : i \in 1..Len(array)}

\* Array.prototype.find: the first element of `array` among `matching`
find(array, matching) ==
  LET hits == {i \in 1..Len(array) : array[i] \in matching}
  IN IF hits = {} THEN Undefined
     ELSE array[CHOOSE i \in hits : \A j \in hits : i <= j]

\* @/utils/path dirname: everything before the last segment
dirname(path) == IF path = <<>> THEN <<>> ELSE SubSeq(path, 1, Len(path) - 1)

RECURSIVE collapse(_, _)
collapse(segments, done) ==
  IF segments = <<>> THEN done
  ELSE LET s == Head(segments)
       IN IF s = "." THEN collapse(Tail(segments), done)
          ELSE IF s = ".." /\ done # <<>> /\ done[Len(done)] # ".."
            THEN collapse(Tail(segments), SubSeq(done, 1, Len(done) - 1))
          ELSE collapse(Tail(segments), Append(done, s))

\* join and normalize: `.` and `..` are collapsed
resolve(baseDir, relativePath) == collapse(baseDir \o relativePath, <<>>)

\* @/utils/pipeline: the file address of a step of a pipeline in `cwd`
stepPathToProjectPath(file_path, cwd) ==
  [root |-> ProjectDir, path |-> resolve(cwd, file_path)]

\* variant: the loop runs over the states and looks the metadata up
bakePipelinesByState(metadata, states) ==
  LET paired == [i \in 1..Len(states) |->
                   [meta |-> find(metadata, {m \in Elements(metadata) : m.uuid = states[i].uuid}),
                    state |-> states[i]]]
  IN SelectSeq(paired, LAMBDA p : p.meta # Undefined)

\* lines 110-123: one pass over the metadata, pushing the entries with a state
bakePipelines(metadata, states) ==
  LET paired == [i \in 1..Len(metadata) |->
                   [meta |-> metadata[i],
                    state |-> find(states, {st \in Elements(states) : st.uuid = metadata[i].uuid})]]
  IN SelectSeq(paired, LAMBDA p : p.state # Undefined)

\* variant: without the active pipeline the step is resolved against the
\* project directory
stepFilePathWithoutPipeline(step, pipelines, pipelineUuid) ==
  IF step = Undefined THEN Undefined
  ELSE LET pipeline == find(pipelines, {b \in Elements(pipelines) : Str(b.meta.uuid) = pipelineUuid})
       IN IF pipeline = Undefined
            THEN stepPathToProjectPath(step.file_path, <<>>)
            ELSE stepPathToProjectPath(step.file_path, dirname(pipeline.meta.path))

\* lines 36-46
stepFilePath(step, pipelines, pipelineUuid) ==
  IF step = Undefined THEN Undefined
  ELSE LET pipeline == find(pipelines, {b \in Elements(pipelines) : Str(b.meta.uuid) = pipelineUuid})
       IN IF pipeline = Undefined THEN Undefined
          ELSE stepPathToProjectPath(step.file_path, dirname(pipeline.meta.path))

\* variant: the steps are not resolved against their pipeline's directory
usedInWithoutCwd(pipelines, filePath) ==
  IF filePath = Undefined THEN <<>>
  ELSE LET Matches(st) ==
             LET address == stepPathToProjectPath(st.file_path, <<>>)
             IN address.root = filePath.root /\ address.path = filePath.path
           mapped == [i \in 1..Len(pipelines) |->
                        LET steps == pipelines[i].state.steps
                            found == find(steps, {st \in Elements(steps) : Matches(st)})
                        IN IF found # Undefined
                             THEN [step |-> found,
                                   meta |-> pipelines[i].meta,
                                   state |-> pipelines[i].state]
                             ELSE Undefined]
       IN SelectSeq(mapped, hasValue)

\* lines 48-63: map to the first matching step, then filter(hasValue)
usedIn(pipelines, filePath) ==
  IF filePath = Undefined THEN <<>>
  ELSE LET Matches(cwd, st) ==
             LET address == stepPathToProjectPath(st.file_path, cwd)
             IN address.root = filePath.root /\ address.path = filePath.path
           mapped == [i \in 1..Len(pipelines) |->
                        LET cwd == dirname(pipelines[i].meta.path)
                            steps == pipelines[i].state.steps
                            found == find(steps,
                                          {st \in Elements(steps) : Matches(cwd, st)})
                        IN IF found # Undefined
                             THEN [step |-> found,
                                   meta |-> pipelines[i].meta,
                                   state |-> pipelines[i].state]
                             ELSE Undefined]
       IN SelectSeq(mapped, hasValue)

\* lines 32-63: the used-in list of one render
usedInOf(metadata, states, step, pipelineUuid) ==
  LET pipelines == bakePipelines(metadata, states)
  IN usedIn(pipelines, stepFilePath(step, pipelines, pipelineUuid))

\* variant: the switcher is also rendered for a single entry
renderForAnyUsage(entries, pipelineUuid) ==
  IF Len(entries) < 1 THEN Null
  ELSE [label |-> Len(entries),
        value |-> pipelineUuid,
        items |-> [i \in 1..Len(entries) |-> entries[i].meta.uuid]]

\* lines 77-107: what the component returns
render(entries, pipelineUuid) ==
  IF Len(entries) < 2 THEN Null
  ELSE [label |-> Len(entries),
        value |-> pipelineUuid,
        items |-> [i \in 1..Len(entries) |-> entries[i].meta.uuid]]


\* ------------------------------------------------------------------ state
VARIABLES
  cacheKey,     \* getPipelineJSONEndpoint(...): Undefined or the url
  promise,      \* "none" | "pending" | "responded" | "fulfilled" | "rejected"
  response,     \* what fetcher resolved with (Undefined before)
  engine,       \* sort engine used by the last normalization
  pipelineObj,  \* value the promise fulfilled with (Undefined otherwise)
  thrown,       \* reason the promise rejected with (Undefined otherwise)
  swr,          \* the SWR entry of cacheKey: data, error, isValidating
  round,        \* 0: first fetch, 1: refetch of the saved normalized document
  firstInput,   \* document parsed in round 0
  firstResult   \* value round 0 fulfilled with

fetchVars == <<cacheKey, promise, response, engine, pipelineObj, thrown, swr,
               round, firstInput, firstResult>>

VARIABLES
  pipelineReadOnlyReason, \* ProjectsContext: Undefined or a reason
  projectUuid,            \* route: Undefined or the project uuid
  pipelineUuid,           \* route: Undefined or the active pipeline uuid
  pipelines,              \* ProjectsContext: pipeline metadata list
  selectedFiles,          \* FileManagerContext: selected combined paths
  contextMenuPath,        \* Undefined or Str(combined path) of the context menu
  contextMenuOrigin,      \* Undefined or the position of the open menu
  files,                  \* backend: the pipeline-definition files that exist
  phase,                  \* where the current handleDelete invocation stands
  filesToDelete,          \* targets captured by handleDelete
  activePipeline,         \* `pipeline` captured by handleDelete
  dialog,                 \* Undefined or the content passed to setConfirm
  deleteStatus,           \* per target: "pending" | "ok" | "failed"
  dispatched,             \* SET_PIPELINES was dispatched by this deletion
  navigated,              \* navigateTo(siteMap.pipeline.path) was called
  resolved,               \* resolve(true) was called
  calls,                  \* calls made by the handleDelete invocation, in order
  selectedAtTrigger       \* selectedFiles when handleDelete was called

deleteVars == <<pipelineReadOnlyReason, projectUuid, pipelineUuid, pipelines,
                selectedFiles, contextMenuPath, contextMenuOrigin, files, phase,
                filesToDelete, activePipeline, dialog, deleteStatus, dispatched,
                navigated, resolved, calls, selectedAtTrigger>>

VARIABLES
  metadata,     \* ProjectsContext: state.pipelines as the selector reads it
  states,       \* useProjectPipelineJsons(): the loaded pipeline definitions
  step,         \* useActiveStep(): Undefined or the step being previewed
  route,        \* useCustomRoute(): pipelineUuid and jobUuid
  rendered,     \* what StepPipelineSelector returned on its last render
  lastSwitch    \* Undefined or the last changePipeline call and its navigation

selectorVars == <<metadata, states, step, route, rendered, lastSwitch>>

VARIABLES
  mounted,              \* the component calling useFetchPipelineJson is mounted
  clearCacheOnUnmount,  \* the prop: Undefined, Bool(TRUE) or Bool(FALSE)
  lastSet               \* the last setPipelineJson call: a toggling bit and its argument

hookVars == <<mounted, clearCacheOnUnmount, lastSet>>

MaxProjects == 2      \* at most this many projects in the list
MaxRequests == 3      \* at most this many DELETE requests are issued

AllProjectUuids == <<"a", "b", "c">>

ProjectUuids ==
  {AllProjectUuids[i] : i \in 1..(IF MaxProjects < 3 THEN MaxProjects ELSE 3)}

VARIABLES
  projects,                   \* ProjectsContext: uuids of the listed projects
  activeProjectUuid,          \* ProjectsContext: state.projectUuid
  selectedProjectMenuButton,  \* Undefined or Str(uuid) of the open project menu
  projectsBeingDeleted,       \* the list of markers kept by ProjectList
  requests,                   \* per project: where its requestDeleteProject call stands
  alerts,                     \* projects for which setAlert("Error", ...) was called
  requested                   \* number of DELETE requests issued so far

projectVars == <<projects, activeProjectUuid, selectedProjectMenuButton,
                 projectsBeingDeleted, requests, alerts, requested>>

vars == <<fetchVars, deleteVars, selectorVars, hookVars, projectVars>>

otherThanFetch == <<deleteVars, selectorVars, hookVars, projectVars>>
otherThanDelete == <<fetchVars, selectorVars, hookVars, projectVars>>
otherThanSelector == <<fetchVars, deleteVars, hookVars, projectVars>>
otherThanHook == <<deleteVars, selectorVars, projectVars>>
otherThanProjects == <<fetchVars, deleteVars, selectorVars, hookVars>>

\* the project list is not shown
IdleProjects ==
  /\ projects = <<>>
  /\ activeProjectUuid = Undefined
  /\ selectedProjectMenuButton = Undefined
  /\ projectsBeingDeleted = <<>>
  /\ requests = [id \in ProjectUuids |-> "none"]
  /\ alerts = {}
  /\ requested = 0

\* the hook is mounted without clearCacheOnUnmount and nothing was set yet
IdleHook ==
  /\ mounted = TRUE
  /\ clearCacheOnUnmount = Undefined
  /\ lastSet = [bit |-> 0, data |-> Undefined]

\* the selector is not mounted
IdleSelector ==
  /\ metadata = <<>>
  /\ states = <<>>
  /\ step = Undefined
  /\ route = [pipelineUuid |-> Undefined, jobUuid |-> Undefined]
  /\ rendered = Null
  /\ lastSwitch = Undefined

Url == Str("/async/pipelines/json/project/pipeline")

\* the file manager before any interaction
IdleFileManager ==
  /\ pipelines = fetchPipelines(InitialFiles)
  /\ selectedFiles = <<>>
  /\ contextMenuPath = Undefined
  /\ contextMenuOrigin = Undefined
  /\ files = InitialFiles
  /\ phase = "idle"
  /\ filesToDelete = <<>>
  /\ activePipeline = Undefined
  /\ dialog = Undefined
  /\ deleteStatus = <<>>
  /\ dispatched = FALSE
  /\ navigated = FALSE
  /\ resolved = FALSE
  /\ calls = <<>>
  /\ selectedAtTrigger = <<>>

InitFetch ==
  /\ cacheKey \in {Undefined, Url}
  /\ pipelineReadOnlyReason = Undefined
  /\ projectUuid = Str("project")
  /\ pipelineUuid = Str("u1")
  /\ IdleFileManager
  /\ IdleSelector
  /\ IdleHook
  /\ IdleProjects
  /\ promise = "none"
  /\ response = Undefined
  /\ engine = "linear"
  /\ pipelineObj = Undefined
  /\ thrown = Undefined
  /\ swr = [data |-> Undefined, error |-> Undefined, isValidating |-> FALSE]
  /\ round = 0
  /\ firstInput = Undefined
  /\ firstResult = Undefined

\* useSWR (lines 100-112) runs the fetcher for a non-null key;
\* fetchPipelineJson passes line 30 and calls fetcher(url)
Revalidate ==
  /\ cacheKey # Undefined
  /\ mounted
  /\ promise = "none"
  /\ promise' = "pending"
  /\ swr' = [swr EXCEPT !.isValidating = TRUE]
  /\ UNCHANGED <<cacheKey, response, engine, pipelineObj, thrown, round,
                 firstInput, firstResult>>
  /\ UNCHANGED otherThanFetch

\* fetchPipelineJson called with props that give no url: line 30
FetchWithoutUrl ==
  /\ cacheKey = Undefined
  /\ promise = "none"
  /\ promise' = "rejected"
  /\ UNCHANGED <<cacheKey, response, engine, pipelineObj, thrown, swr, round,
                 firstInput, firstResult>>
  /\ UNCHANGED otherThanFetch

\* fetcher(url) resolves with a payload
FetcherResolves ==
  /\ promise = "pending"
  /\ round = 0
  /\ \E result \in FetcherResults :
       /\ response' = result
       /\ firstInput' = IF result.pipeline_json.wellFormed
                          THEN result.pipeline_json.doc ELSE Undefined
  /\ promise' = "responded"
  /\ UNCHANGED <<cacheKey, engine, pipelineObj, thrown, swr, round, firstResult>>
  /\ UNCHANGED otherThanFetch

\* fetcher(url) rejects (transport failure); SWR records the error
FetcherRejects ==
  /\ promise = "pending"
  /\ promise' = "rejected"
  /\ thrown' = Str("NetworkError")
  /\ swr' = [swr EXCEPT !.error = Str("NetworkError"), !.isValidating = FALSE]
  /\ UNCHANGED <<cacheKey, response, engine, pipelineObj, round, firstInput,
                 firstResult>>
  /\ UNCHANGED otherThanFetch

\* the `.then` callback of lines 35-77 runs and SWR stores its outcome
RunThenCallback ==
  /\ promise = "responded"
  /\ \E e \in SortEngines :
       LET out == ThenCallback(response, e)
       IN /\ engine' = e
          /\ IF out.threw
               THEN /\ promise' = "rejected"
                    /\ thrown' = Str(out.error)
                    /\ pipelineObj' = Undefined
                    /\ swr' = [swr EXCEPT !.error = Str(out.error),
                                          !.isValidating = FALSE]
                    /\ UNCHANGED firstResult
               ELSE /\ promise' = "fulfilled"
                    /\ thrown' = Undefined
                    /\ pipelineObj' = out.value
                    /\ swr' = [data |-> out.value, error |-> Undefined,
                               isValidating |-> FALSE]
                    /\ firstResult' = IF round = 0 THEN out.value ELSE firstResult
  /\ UNCHANGED <<cacheKey, response, round, firstInput>>
  /\ UNCHANGED otherThanFetch

\* the normalized document is saved as is and fetched again: the backend
\* answers with its serialization
RefetchSaved ==
  /\ promise = "fulfilled"
  /\ round = 0
  /\ round' = 1
  /\ response' = [success |-> TRUE, pipeline_json |-> JSONstringify(swr.data)]
  /\ promise' = "responded"
  /\ swr' = [swr EXCEPT !.isValidating = TRUE]
  /\ UNCHANGED <<cacheKey, engine, pipelineObj, thrown, firstInput, firstResult>>
  /\ UNCHANGED otherThanFetch

NextFetch ==
  \/ Revalidate
  \/ FetchWithoutUrl
  \/ FetcherResolves
  \/ FetcherRejects
  \/ RunThenCallback
  \/ RefetchSaved

SpecFetch == InitFetch /\ [][NextFetch]_vars

\* ------------------------------------------------ file manager: handleDelete
\* no fetch of a pipeline definition is going on
IdleFetch ==
  /\ cacheKey = Undefined
  /\ promise = "none"
  /\ response = Undefined
  /\ engine = "linear"
  /\ pipelineObj = Undefined
  /\ thrown = Undefined
  /\ swr = [data |-> Undefined, error |-> Undefined, isValidating |-> FALSE]
  /\ round = 0
  /\ firstInput = Undefined
  /\ firstResult = Undefined

InitDelete ==
  /\ IdleFetch
  /\ pipelineReadOnlyReason \in {Undefined, Str("job run")}
  /\ projectUuid \in {Undefined, Str("project")}
  /\ pipelineUuid \in {Undefined, Str("u1"), Str("u2")}
  /\ IdleFileManager
  /\ IdleSelector
  /\ IdleHook
  /\ IdleProjects

SelectionInputs ==
  {s \in UNION {[1..n -> CombinedPaths] : n \in 0..MaxSelected} :
     \A i, j \in 1..Len(s) : i # j => s[i] # s[j]}

\* lines 96-106
handleContextMenu ==
  /\ phase = "idle"
  /\ \E combinedPath \in {Str(c) : c \in CombinedPaths} \cup {Undefined} :
       contextMenuPath' = combinedPath
  /\ contextMenuOrigin' = IF contextMenuOrigin = Undefined
                            THEN Str("point") ELSE Undefined
  /\ UNCHANGED <<pipelineReadOnlyReason, projectUuid, pipelineUuid, pipelines,
                 selectedFiles, files, phase, filesToDelete, activePipeline,
                 dialog, deleteStatus, dispatched, navigated, resolved>>
  /\ UNCHANGED <<calls, selectedAtTrigger>>
  /\ UNCHANGED otherThanDelete

\* lines 108-114; once handleDelete runs (findPipelineFiles awaited, dialog
\* open) only clearing the selection is taken
handleSelect ==
  /\ phase \in {"idle", "finding", "confirming"}
  /\ \E selected \in (IF phase = "idle" THEN SelectionInputs ELSE {<<>>}) :
       selectedFiles' = selected
  /\ UNCHANGED <<pipelineReadOnlyReason, projectUuid, pipelineUuid, pipelines,
                 contextMenuPath, contextMenuOrigin, files, phase,
                 filesToDelete, activePipeline, dialog, deleteStatus,
                 dispatched, navigated, resolved>>
  /\ UNCHANGED <<calls, selectedAtTrigger>>
  /\ UNCHANGED otherThanDelete

\* variant: the read-only reason of the pipeline is not looked at
handleDeleteIgnoringReadOnly ==
  /\ phase = "idle"
  /\ IF \/ contextMenuPath = Undefined
        \/ projectUuid = Undefined
       THEN /\ phase' = "returned"
            /\ UNCHANGED <<contextMenuOrigin, filesToDelete, activePipeline,
                           calls, selectedAtTrigger>>
       ELSE /\ contextMenuOrigin' = Undefined
            /\ selectedAtTrigger' = selectedFiles
            /\ calls' = <<Call("findPipelineFiles", projectUuid)>>
            /\ filesToDelete' = computeFilesToDelete(selectedFiles,
                                                      contextMenuPath.value)
            /\ activePipeline' = findPipeline(pipelines, pipelineUuid)
            /\ phase' = "finding"
  /\ UNCHANGED <<pipelineReadOnlyReason, projectUuid, pipelineUuid, pipelines,
                 selectedFiles, contextMenuPath, files, dialog, deleteStatus,
                 dispatched, navigated, resolved>>
  /\ UNCHANGED otherThanDelete

\* lines 128-148: handleDelete up to the await of findPipelineFiles
handleDelete ==
  /\ phase = "idle"
  /\ IF \/ pipelineReadOnlyReason # Undefined
        \/ contextMenuPath = Undefined
        \/ projectUuid = Undefined
       THEN /\ phase' = "returned"
            /\ UNCHANGED <<contextMenuOrigin, filesToDelete, activePipeline,
                           calls, selectedAtTrigger>>
       ELSE /\ contextMenuOrigin' = Undefined
            /\ selectedAtTrigger' = selectedFiles
            /\ calls' = <<Call("findPipelineFiles", projectUuid)>>
            /\ filesToDelete' = computeFilesToDelete(selectedFiles,
                                                      contextMenuPath.value)
            /\ activePipeline' = findPipeline(pipelines, pipelineUuid)
            /\ phase' = "finding"
  /\ UNCHANGED <<pipelineReadOnlyReason, projectUuid, pipelineUuid, pipelines,
                 selectedFiles, contextMenuPath, files, dialog, deleteStatus,
                 dispatched, navigated, resolved>>
  /\ UNCHANGED otherThanDelete

\* lines 145-176: findPipelineFiles resolves and setConfirm opens the dialog
findPipelineFilesResolves ==
  /\ phase = "finding"
  /\ LET fileBaseName == basename(filesToDelete[1])
         pathsThatContainsPipelineFiles ==
           findPipelineFiles(files,
             [i \in 1..Len(filesToDelete) |-> unpackPath(filesToDelete[i])])
     IN dialog' = [count |-> Len(filesToDelete),
                   fileBaseName |-> fileBaseName,
                   impacted |-> pathsThatContainsPipelineFiles,
                   showsPipelineFilePaths |->
                     shouldShowPipelineFilePaths(fileBaseName,
                                                 pathsThatContainsPipelineFiles)]
  /\ phase' = "confirming"
  /\ UNCHANGED <<pipelineReadOnlyReason, projectUuid, pipelineUuid, pipelines,
                 selectedFiles, contextMenuPath, contextMenuOrigin, files,
                 filesToDelete, activePipeline, deleteStatus, dispatched,
                 navigated, resolved>>
  /\ calls' = Append(calls, Call("setConfirm", Str("Warning")))
  /\ UNCHANGED selectedAtTrigger
  /\ UNCHANGED otherThanDelete

\* line 145: findPipelineFiles rejects, handleDelete ends without a dialog
findPipelineFilesRejects ==
  /\ phase = "finding"
  /\ phase' = "failed"
  /\ UNCHANGED <<pipelineReadOnlyReason, projectUuid, pipelineUuid, pipelines,
                 selectedFiles, contextMenuPath, contextMenuOrigin, files,
                 filesToDelete, activePipeline, dialog, deleteStatus,
                 dispatched, navigated, resolved>>
  /\ UNCHANGED <<calls, selectedAtTrigger>>
  /\ UNCHANGED otherThanDelete

\* the user dismisses the dialog: the confirm callback is not invoked
userCancels ==
  /\ phase = "confirming"
  /\ phase' = "cancelled"
  /\ dialog' = Undefined
  /\ UNCHANGED <<pipelineReadOnlyReason, projectUuid, pipelineUuid, pipelines,
                 selectedFiles, contextMenuPath, contextMenuOrigin, files,
                 filesToDelete, activePipeline, deleteStatus, dispatched,
                 navigated, resolved>>
  /\ UNCHANGED <<calls, selectedAtTrigger>>
  /\ UNCHANGED otherThanDelete

\* lines 177-182: the confirm callback starts one deleteFile per target
userConfirms ==
  /\ phase = "confirming"
  /\ phase' = "deleting"
  /\ dialog' = Undefined
  /\ deleteStatus' = [i \in 1..Len(filesToDelete) |-> "pending"]
  /\ UNCHANGED <<pipelineReadOnlyReason, projectUuid, pipelineUuid, pipelines,
                 selectedFiles, contextMenuPath, contextMenuOrigin, files,
                 filesToDelete, activePipeline, dispatched, navigated, resolved>>
  /\ calls' = Append(calls, Call("onConfirm", Undefined))
                \o deleteFileCalls(filesToDelete)
  /\ UNCHANGED selectedAtTrigger
  /\ UNCHANGED otherThanDelete

\* one deleteFile(root, path) call succeeds on the backend
deleteFileResolves ==
  /\ phase \in {"deleting", "rejected"}
  /\ \E i \in 1..Len(deleteStatus) :
       /\ deleteStatus[i] = "pending"
       /\ deleteStatus' = [deleteStatus EXCEPT ![i] = "ok"]
       /\ files' = deleteOnBackend(files, unpackPath(filesToDelete[i]))
  /\ UNCHANGED <<pipelineReadOnlyReason, projectUuid, pipelineUuid, pipelines,
                 selectedFiles, contextMenuPath, contextMenuOrigin, phase,
                 filesToDelete, activePipeline, dialog, dispatched, navigated,
                 resolved>>
  /\ UNCHANGED <<calls, selectedAtTrigger>>
  /\ UNCHANGED otherThanDelete

\* one deleteFile(root, path) call rejects
deleteFileRejects ==
  /\ phase \in {"deleting", "rejected"}
  /\ \E i \in 1..Len(deleteStatus) :
       /\ deleteStatus[i] = "pending"
       /\ deleteStatus' = [deleteStatus EXCEPT ![i] = "failed"]
  /\ UNCHANGED <<pipelineReadOnlyReason, projectUuid, pipelineUuid, pipelines,
                 selectedFiles, contextMenuPath, contextMenuOrigin, files, phase,
                 filesToDelete, activePipeline, dialog, dispatched, navigated,
                 resolved>>
  /\ UNCHANGED <<calls, selectedAtTrigger>>
  /\ UNCHANGED otherThanDelete

\* variant: the deletions are not awaited before the refresh
awaitDeletionsNotAwaited ==
  /\ phase = "deleting"
  /\ phase' = "refreshing"
  /\ UNCHANGED <<pipelineReadOnlyReason, projectUuid, pipelineUuid, pipelines,
                 selectedFiles, contextMenuPath, contextMenuOrigin, files,
                 filesToDelete, activePipeline, dialog, deleteStatus,
                 dispatched, navigated, resolved>>
  /\ calls' = Append(calls, Call("fetchPipelines", projectUuid))
  /\ UNCHANGED selectedAtTrigger
  /\ UNCHANGED otherThanDelete

\* lines 178-185: Promise.all settles; on fulfilment fetchPipelines is
\* called, on rejection the confirm callback rejects
awaitDeletions ==
  /\ phase = "deleting"
  /\ PromiseAll(deleteStatus) # "pending"
  /\ phase' = IF PromiseAll(deleteStatus) = "fulfilled"
                THEN "refreshing" ELSE "rejected"
  /\ UNCHANGED <<pipelineReadOnlyReason, projectUuid, pipelineUuid, pipelines,
                 selectedFiles, contextMenuPath, contextMenuOrigin, files,
                 filesToDelete, activePipeline, dialog, deleteStatus,
                 dispatched, navigated, resolved>>
  /\ calls' = IF PromiseAll(deleteStatus) = "fulfilled"
                THEN Append(calls, Call("fetchPipelines", projectUuid))
                ELSE calls
  /\ UNCHANGED selectedAtTrigger
  /\ UNCHANGED otherThanDelete

\* lines 185-211: fetchPipelines resolves; dispatch, redirect decision,
\* resolve(true)
fetchPipelinesResolves ==
  /\ phase = "refreshing"
  /\ pipelines' = fetchPipelines(files)
  /\ dispatched' = TRUE
  /\ navigated' = shouldRedirect(filesToDelete, activePipeline)
  /\ resolved' = TRUE
  /\ phase' = "done"
  /\ UNCHANGED <<pipelineReadOnlyReason, projectUuid, pipelineUuid,
                 selectedFiles, contextMenuPath, contextMenuOrigin, files,
                 filesToDelete, activePipeline, dialog, deleteStatus>>
  /\ calls' = calls \o callsAfterRefresh(shouldRedirect(filesToDelete,
                                                         activePipeline))
  /\ UNCHANGED selectedAtTrigger
  /\ UNCHANGED otherThanDelete

\* line 185: fetchPipelines rejects, and with it the confirm callback
fetchPipelinesRejects ==
  /\ phase = "refreshing"
  /\ phase' = "rejected"
  /\ UNCHANGED <<pipelineReadOnlyReason, projectUuid, pipelineUuid, pipelines,
                 selectedFiles, contextMenuPath, contextMenuOrigin, files,
                 filesToDelete, activePipeline, dialog, deleteStatus,
                 dispatched, navigated, resolved>>
  /\ UNCHANGED <<calls, selectedAtTrigger>>
  /\ UNCHANGED otherThanDelete

NextDelete ==
  \/ handleContextMenu
  \/ handleSelect
  \/ handleDelete
  \/ findPipelineFilesResolves
  \/ findPipelineFilesRejects
  \/ userCancels
  \/ userConfirms
  \/ deleteFileResolves
  \/ deleteFileRejects
  \/ awaitDeletions
  \/ fetchPipelinesResolves
  \/ fetchPipelinesRejects

SpecDelete == InitDelete /\ [][NextDelete]_vars

\* ------------------------------------------------ StepPipelineSelector
\* lines 27-34: the selector mounts on a file-preview route, plain or of a
\* job run; nothing is loaded yet
InitSelector ==
  /\ IdleFetch
  /\ pipelineReadOnlyReason = Undefined
  /\ projectUuid = Str("project")
  /\ pipelineUuid = Str("u1")
  /\ IdleFileManager
  /\ metadata = <<>>
  /\ states = <<>>
  /\ step = Undefined
  /\ route \in [pipelineUuid : {Undefined} \cup {Str(u) : u \in Uuids},
                jobUuid : {Undefined, Str("job")}]
  /\ rendered = Null
  /\ lastSwitch = Undefined
  /\ IdleHook
  /\ IdleProjects

IsLoaded(uuid) == \E i \in 1..Len(states) : states[i].uuid = uuid

RemoveAt(seq, i) == SubSeq(seq, 1, i - 1) \o SubSeq(seq, i + 1, Len(seq))

\* line 29: the project's pipeline list changes, a pipeline is created or
\* one is deleted
setPipelines ==
  \E payload \in MetadataInputs :
    /\ \/ /\ Len(payload) = Len(metadata) + 1
          /\ SubSeq(payload, 1, Len(metadata)) = metadata
       \/ \E i \in 1..Len(metadata) : payload = RemoveAt(metadata, i)
    /\ metadata' = payload
    /\ rendered' = render(usedInOf(payload, states, step, route.pipelineUuid),
                          route.pipelineUuid)
    /\ UNCHANGED <<states, step, route, lastSwitch>>
    /\ UNCHANGED otherThanSelector

\* line 28: one more pipeline definition finished loading
pipelineJsonLoaded ==
  \E uuid \in Uuids : \E steps \in StepsInputs(uuid) :
    /\ ~IsLoaded(uuid)
    /\ Len(states) < MaxPipelines
    /\ states' = Append(states, PipelineState(uuid, steps))
    /\ rendered' = render(usedInOf(metadata, states', step, route.pipelineUuid),
                          route.pipelineUuid)
    /\ UNCHANGED <<metadata, step, route, lastSwitch>>
    /\ UNCHANGED otherThanSelector

\* line 27: the active step becomes known, a step of the loaded definition
\* of the route's pipeline
activeStepLoaded ==
  \E i \in 1..Len(states) : \E k \in 1..Len(states[i].steps) :
    /\ route.pipelineUuid = Str(states[i].uuid)
    /\ step = Undefined
    /\ step' = states[i].steps[k]
    /\ rendered' = render(usedInOf(metadata, states, step', route.pipelineUuid),
                          route.pipelineUuid)
    /\ UNCHANGED <<metadata, states, route, lastSwitch>>
    /\ UNCHANGED otherThanSelector

\* what navigate() does to the route and the active step
Navigated(newPipelineUuid, stepUuid) ==
  LET state == find(states, {st \in Elements(states) : st.uuid = newPipelineUuid})
  IN /\ route' = [route EXCEPT !.pipelineUuid = Str(newPipelineUuid)]
     /\ step' = IF state = Undefined THEN Undefined
                ELSE find(state.steps, {st \in Elements(state.steps) : st.uuid = stepUuid})

\* variant: the step is taken from the first used-in entry
changePipelineFirstEntry(newPipelineUuid) ==
  LET entries == usedInOf(metadata, states, step, route.pipelineUuid)
      stepUuid == IF entries = <<>> THEN Undefined ELSE Str(entries[1].step.uuid)
  IN /\ UNCHANGED <<metadata, states>>
     /\ IF stepUuid = Undefined
          THEN /\ lastSwitch' = [target |-> newPipelineUuid, navigate |-> Undefined]
               /\ UNCHANGED <<step, route, rendered>>
          ELSE /\ lastSwitch' =
                    [target |-> newPipelineUuid,
                     navigate |->
                       [route |-> IF hasValue(route.jobUuid)
                                    THEN "jobRunFilePreview" ELSE "filePreview",
                        query |-> [pipelineUuid |-> newPipelineUuid,
                                   stepUuid |-> stepUuid.value]]]
               /\ Navigated(newPipelineUuid, stepUuid.value)
               /\ rendered' = render(usedInOf(metadata, states, step',
                                              route'.pipelineUuid),
                                     route'.pipelineUuid)
     /\ UNCHANGED otherThanSelector

\* lines 65-75
changePipeline(newPipelineUuid) ==
  LET entries == usedInOf(metadata, states, step, route.pipelineUuid)
      usage == find(entries, {u \in Elements(entries) : u.meta.uuid = newPipelineUuid})
      stepUuid == IF usage = Undefined THEN Undefined ELSE Str(usage.step.uuid)
  IN /\ UNCHANGED <<metadata, states>>
     /\ IF stepUuid = Undefined
          THEN /\ lastSwitch' = [target |-> newPipelineUuid, navigate |-> Undefined]
               /\ UNCHANGED <<step, route, rendered>>
          ELSE /\ lastSwitch' =
                    [target |-> newPipelineUuid,
                     navigate |->
                       [route |-> IF hasValue(route.jobUuid)
                                    THEN "jobRunFilePreview" ELSE "filePreview",
                        query |-> [pipelineUuid |-> newPipelineUuid,
                                   stepUuid |-> stepUuid.value]]]
               /\ Navigated(newPipelineUuid, stepUuid.value)
               /\ rendered' = render(usedInOf(metadata, states, step',
                                              route'.pipelineUuid),
                                     route'.pipelineUuid)
     /\ UNCHANGED otherThanSelector

NextSelector ==
  \/ setPipelines
  \/ pipelineJsonLoaded
  \/ activeStepLoaded
  \/ \E target \in Uuids : changePipeline(target)

SpecSelector == InitSelector /\ [][NextSelector]_vars

\* ------------------------------------------------ the hook and its cache
\* payloads the backend answers with while the cache is exercised
SampleResults ==
  {[success |-> TRUE, pipeline_json |-> JSONstringify(SampleDoc)],
   [success |-> TRUE,
    pipeline_json |->
      JSONstringify([settings |-> Undefined,
                     parameters |-> Undefined,
                     services |-> [type |-> "object",
                                   entries |-> <<[name |-> "b", order |-> Undefined],
                                                 [name |-> "a", order |-> Num(1)]>>]])],
   [success |-> FALSE, pipeline_json |-> MalformedText]}

\* a locally edited pipeline definition
EditedDoc ==
  [NormalizePipelineObj(SampleDoc, "linear")
     EXCEPT !.parameters = [type |-> "object", keys |-> {"lr"}]]

\* a MutatorCallback: drops the parameters of the cached definition
Producer(current) ==
  IF current = Undefined THEN Undefined
  ELSE [current EXCEPT !.parameters = EmptyObject]

\* arguments of setPipelineJson: a value, a producer or undefined
SetInputs ==
  {[kind |-> "value", value |-> EditedDoc],
   [kind |-> "producer", value |-> Undefined],
   [kind |-> "undefined", value |-> Undefined]}

\* SWR's bound mutate(data, shouldRevalidate) on the entry of `key`: without
\* a key nothing happens; the data is written at once and a fetch is started
\* only when revalidation is asked for
mutate(key, entry, inFlight, data, shouldRevalidate) ==
  IF key = Undefined THEN [swr |-> entry, promise |-> inFlight]
  ELSE LET value == CASE data.kind = "value" -> data.value
                      [] data.kind = "producer" -> Producer(entry.data)
                      [] OTHER -> Undefined
       IN [swr |-> [entry EXCEPT !.data = value,
                                 !.isValidating = IF shouldRevalidate THEN TRUE ELSE @],
           promise |-> IF shouldRevalidate THEN "pending" ELSE inFlight]

\* lines 80-112: the hook mounts; the key may be missing, the entry may hold
\* a definition cached by an earlier view
InitCache ==
  /\ pipelineReadOnlyReason = Undefined
  /\ projectUuid = Str("project")
  /\ pipelineUuid = Str("u1")
  /\ IdleFileManager
  /\ IdleSelector
  /\ IdleProjects
  /\ cacheKey \in {Undefined, Url}
  /\ promise = "none"
  /\ response = Undefined
  /\ engine = "linear"
  /\ pipelineObj = Undefined
  /\ thrown = Undefined
  /\ swr \in [data : IF cacheKey = Undefined THEN {Undefined}
                     ELSE {Undefined, EditedDoc},
              error : {Undefined},
              isValidating : {FALSE}]
  /\ round = 0
  /\ firstInput = Undefined
  /\ firstResult = Undefined
  /\ mounted = TRUE
  /\ clearCacheOnUnmount \in {Undefined, Bool(TRUE)}
  /\ lastSet = [bit |-> 0, data |-> Undefined]

\* line 111 and the returned fetchPipelineJson: the mounted hook revalidates
\* a key that has no request in flight
RevalidateAgain ==
  /\ cacheKey # Undefined
  /\ mounted
  /\ promise \in {"fulfilled", "rejected"}
  /\ promise' = "pending"
  /\ swr' = [swr EXCEPT !.isValidating = TRUE]
  /\ UNCHANGED <<cacheKey, response, engine, pipelineObj, thrown, round,
                 firstInput, firstResult>>
  /\ UNCHANGED otherThanFetch

\* fetcher(url) resolves with one of the sample payloads
FetcherResolvesSample ==
  /\ promise = "pending"
  /\ \E result \in SampleResults : response' = result
  /\ promise' = "responded"
  /\ UNCHANGED <<cacheKey, engine, pipelineObj, thrown, swr, round, firstInput,
                 firstResult>>
  /\ UNCHANGED otherThanFetch

\* variant: the cache is mutated with revalidation
setPipelineJsonRevalidating(data) ==
  LET out == mutate(cacheKey, swr, promise, data, TRUE)
  IN /\ mounted
     /\ swr' = out.swr
     /\ promise' = out.promise
     /\ lastSet' = [bit |-> 1 - lastSet.bit, data |-> data]
     /\ UNCHANGED <<cacheKey, response, engine, pipelineObj, thrown, round,
                    firstInput, firstResult>>
     /\ UNCHANGED <<mounted, clearCacheOnUnmount>>
     /\ UNCHANGED otherThanHook

\* lines 114-123: setPipelineJson(data) is mutate(data, false)
setPipelineJson(data) ==
  LET out == mutate(cacheKey, swr, promise, data, FALSE)
  IN /\ mounted
     /\ swr' = out.swr
     /\ promise' = out.promise
     /\ lastSet' = [bit |-> 1 - lastSet.bit, data |-> data]
     /\ UNCHANGED <<cacheKey, response, engine, pipelineObj, thrown, round,
                    firstInput, firstResult>>
     /\ UNCHANGED <<mounted, clearCacheOnUnmount>>
     /\ UNCHANGED otherThanHook

\* lines 125-131: the cleanup of the effect
cleanup(flag) ==
  LET out == mutate(cacheKey, swr, promise,
                    [kind |-> "undefined", value |-> Undefined], FALSE)
  IN IF flag = Bool(TRUE)
       THEN /\ swr' = out.swr
            /\ promise' = out.promise
            /\ lastSet' = [bit |-> 1 - lastSet.bit,
                           data |-> [kind |-> "undefined", value |-> Undefined]]
       ELSE UNCHANGED <<swr, promise, lastSet>>

\* variant: the cleanup does not look at clearCacheOnUnmount
UnmountAlwaysClearing ==
  /\ mounted
  /\ mounted' = FALSE
  /\ cleanup(Bool(TRUE))
  /\ UNCHANGED <<cacheKey, response, engine, pipelineObj, thrown, round,
                 firstInput, firstResult, clearCacheOnUnmount>>
  /\ UNCHANGED otherThanHook

\* the component is torn down: React runs the cleanup of the last effect
Unmount ==
  /\ mounted
  /\ mounted' = FALSE
  /\ cleanup(clearCacheOnUnmount)
  /\ UNCHANGED <<cacheKey, response, engine, pipelineObj, thrown, round,
                 firstInput, firstResult, clearCacheOnUnmount>>
  /\ UNCHANGED otherThanHook

\* line 131: clearCacheOnUnmount is a dependency of the effect, so a render
\* with another value runs the cleanup of the previous effect first
clearCacheOnUnmountChanges ==
  \E flag \in {Undefined, Bool(TRUE), Bool(FALSE)} :
    /\ mounted
    /\ flag # clearCacheOnUnmount
    /\ clearCacheOnUnmount' = flag
    /\ cleanup(clearCacheOnUnmount)
    /\ UNCHANGED <<cacheKey, response, engine, pipelineObj, thrown, round,
                   firstInput, firstResult, mounted>>
    /\ UNCHANGED otherThanHook

NextCache ==
  \/ Revalidate
  \/ RevalidateAgain
  \/ FetcherResolvesSample
  \/ FetcherRejects
  \/ RunThenCallback
  \/ \E data \in SetInputs : setPipelineJson(data)
  \/ Unmount
  \/ clearCacheOnUnmountChanges

SpecCache == InitCache /\ [][NextCache]_vars

\* ------------------------------------------------ ProjectList
\* lines 14-29: the list shows the projects; one of them may be the active
\* project; no deletion was requested yet
InitProjects ==
  /\ IdleFetch
  /\ pipelineReadOnlyReason = Undefined
  /\ projectUuid = Str("project")
  /\ pipelineUuid = Str("u1")
  /\ IdleFileManager
  /\ IdleSelector
  /\ IdleHook
  /\ projects = SubSeq(AllProjectUuids, 1, Cardinality(ProjectUuids))
  /\ activeProjectUuid \in {Undefined} \cup {Str(id) : id \in ProjectUuids}
  /\ selectedProjectMenuButton = Undefined
  /\ projectsBeingDeleted = <<>>
  /\ requests = [id \in ProjectUuids |-> "none"]
  /\ alerts = {}
  /\ requested = 0

IsListed(id) == \E i \in 1..Len(projects) : projects[i] = id

\* variant: the filter keeps the uuid instead of dropping it
withoutTheOthers(list, toBeDeletedId) == SelectSeq(list, LAMBDA uuid : uuid = toBeDeletedId)

\* Array.prototype.filter with `uuid !== toBeDeletedId`
without(list, toBeDeletedId) == SelectSeq(list, LAMBDA uuid : uuid # toBeDeletedId)

\* lines 33-48: the menu of a listed project is opened; the row of a project
\* whose deletion is under way offers no menu
openProjectMenu(id) ==
  /\ IsListed(id)
  /\ requests[id] \in {"none", "finished"}
  /\ selectedProjectMenuButton' = Str(id)
  /\ UNCHANGED <<projects, activeProjectUuid, projectsBeingDeleted, requests,
                 alerts, requested>>
  /\ UNCHANGED otherThanProjects

\* line 31
closeProjectMenu ==
  /\ selectedProjectMenuButton # Undefined
  /\ selectedProjectMenuButton' = Undefined
  /\ UNCHANGED <<projects, activeProjectUuid, projectsBeingDeleted, requests,
                 alerts, requested>>
  /\ UNCHANGED otherThanProjects

\* lines 89-109 and 59-75: "Delete Project" is confirmed for the project of
\* the open menu; requestDeleteProject runs up to the await of the DELETE
requestDeleteProject(toBeDeletedId) ==
  /\ selectedProjectMenuButton = Str(toBeDeletedId)
  /\ requested < MaxRequests
  /\ activeProjectUuid' = IF activeProjectUuid = Str(toBeDeletedId)
                            THEN Undefined ELSE activeProjectUuid
  /\ projectsBeingDeleted' = Append(projectsBeingDeleted, toBeDeletedId)
  /\ selectedProjectMenuButton' = Undefined
  /\ requests' = [requests EXCEPT ![toBeDeletedId] = "pending"]
  /\ requested' = requested + 1
  /\ UNCHANGED <<projects, alerts>>
  /\ UNCHANGED otherThanProjects

\* lines 70-74: the DELETE request is answered
fetcherResolves(id) ==
  /\ requests[id] = "pending"
  /\ requests' = [requests EXCEPT ![id] = "resolved"]
  /\ UNCHANGED <<projects, activeProjectUuid, selectedProjectMenuButton,
                 projectsBeingDeleted, alerts, requested>>
  /\ UNCHANGED otherThanProjects

\* lines 70-74: the DELETE request fails
fetcherRejects(id) ==
  /\ requests[id] = "pending"
  /\ requests' = [requests EXCEPT ![id] = "rejected"]
  /\ UNCHANGED <<projects, activeProjectUuid, selectedProjectMenuButton,
                 projectsBeingDeleted, alerts, requested>>
  /\ UNCHANGED otherThanProjects

\* variant: the marker is removed inside the try block
afterAwaitRemovingInTry(toBeDeletedId) ==
  /\ requests[toBeDeletedId] \in {"resolved", "rejected"}
  /\ IF requests[toBeDeletedId] = "resolved"
       THEN /\ projects' = without(projects, toBeDeletedId)
            /\ projectsBeingDeleted' = without(projectsBeingDeleted, toBeDeletedId)
            /\ UNCHANGED alerts
       ELSE /\ alerts' = alerts \cup {toBeDeletedId}
            /\ UNCHANGED <<projects, projectsBeingDeleted>>
  /\ requests' = [requests EXCEPT ![toBeDeletedId] = "finished"]
  /\ UNCHANGED <<activeProjectUuid, selectedProjectMenuButton, requested>>
  /\ UNCHANGED otherThanProjects

\* lines 75-86: requestDeleteProject resumes after the await: SET_PROJECTS
\* without the project, or the alert; then the marker is filtered out
afterAwait(toBeDeletedId) ==
  /\ requests[toBeDeletedId] \in {"resolved", "rejected"}
  /\ IF requests[toBeDeletedId] = "resolved"
       THEN /\ projects' = without(projects, toBeDeletedId)
            /\ UNCHANGED alerts
       ELSE /\ alerts' = alerts \cup {toBeDeletedId}
            /\ UNCHANGED projects
  /\ projectsBeingDeleted' = without(projectsBeingDeleted, toBeDeletedId)
  /\ requests' = [requests EXCEPT ![toBeDeletedId] = "finished"]
  /\ UNCHANGED <<activeProjectUuid, selectedProjectMenuButton, requested>>
  /\ UNCHANGED otherThanProjects

NextProjects ==
  \/ \E id \in ProjectUuids : openProjectMenu(id)
  \/ closeProjectMenu
  \/ \E id \in ProjectUuids : requestDeleteProject(id)
  \/ \E id \in ProjectUuids : fetcherResolves(id)
  \/ \E id \in ProjectUuids : fetcherRejects(id)
  \/ \E id \in ProjectUuids : afterAwait(id)

SpecProjects == InitProjects /\ [][NextProjects]_vars

\* the continuation of an await runs once its promise has settled
SpecProjectsFair ==
  SpecProjects /\ \A id \in ProjectUuids : WF_vars(afterAwait(id))




\* ------------------------------------------------- normalizer: properties
\* round 0 has fulfilled: pipelineObj is the normalization of firstInput
Normalized == round = 0 /\ promise = "fulfilled"

InEntries == DefaultServices(firstInput).entries
OutEntries == pipelineObj.services.entries

HadOrder(i) == hasValue(InEntries[i].order)

ExplicitKeys == {i \in 1..Len(InEntries) : HadOrder(i)}
OrderlessKeys == {i \in 1..Len(InEntries) : ~HadOrder(i)}

\* the explicitly given orders are pairwise distinct positive integers
ExplicitOrdersDistinctPositive ==
  /\ \A i \in ExplicitKeys : InEntries[i].order.value > 0
  /\ \A i, j \in ExplicitKeys :
       i # j => InEntries[i].order.value # InEntries[j].order.value

\* C1: after normalization the `order` values of all services are pairwise
\* distinct, whenever the explicitly given orders are pairwise distinct
\* positive integers.
C1_OrdersDistinct ==
  (Normalized /\ ExplicitOrdersDistinctPositive) =>
    \A i, j \in 1..Len(OutEntries) :
      i # j => OutEntries[i].order # OutEntries[j].order

\* C2: after normalization every service that had no `order` on input has
\* an `order` strictly greater than that of every service that had one.
C2_OrderlessAfterExplicit ==
  Normalized =>
    \A i \in OrderlessKeys : \A j \in ExplicitKeys :
      OutEntries[i].order.value > OutEntries[j].order.value

\* C3: whenever fetchPipelineJson returns a definition, every service has a
\* defined integer `order` and every explicit input `order` is kept.
C3_OrderMandatory ==
  Normalized =>
    /\ Len(OutEntries) = Len(InEntries)
    /\ \A i \in 1..Len(OutEntries) :
         /\ OutEntries[i].order.type = "number"
         /\ OutEntries[i].order.value \in Int
         /\ HadOrder(i) => OutEntries[i].order = InEntries[i].order

C3_Witness ==
  /\ Normalized
  /\ \E i, j, k \in 1..Len(InEntries) :
       /\ InEntries[i].order = Undefined
       /\ InEntries[j].order = Null
       /\ HadOrder(k)
       /\ OutEntries[k].order = InEntries[k].order

\* the value the comparator's closure variable ends with: the greatest
\* explicit order once two explicitly ordered services exist, 0 otherwise
SeenMaxOrder ==
  IF Cardinality(ExplicitKeys) >= 2
    THEN CHOOSE m \in {InEntries[i].order.value : i \in ExplicitKeys} :
           \A i \in ExplicitKeys : InEntries[i].order.value <= m
    ELSE 0

\* order-less services that precede i in the name-sorted sequence (the sort
\* is stable, so equal names keep insertion order)
OrderlessBefore(i) ==
  {j \in OrderlessKeys :
     \/ CollationRank(InEntries[j].name) < CollationRank(InEntries[i].name)
     \/ /\ InEntries[j].name = InEntries[i].name
        /\ j < i}

\* C4: of two order-less services the one whose name sorts first gets the
\* strictly lower `order`, and the order-less services receive maxOrder+1,
\* maxOrder+2, ... in name-sorted sequence.
C4_OrderlessByName ==
  Normalized =>
    /\ \A i, j \in OrderlessKeys :
         localeCompare(InEntries[i].name, InEntries[j].name) < 0
           => OutEntries[i].order.value < OutEntries[j].order.value
    /\ \A i \in OrderlessKeys :
         OutEntries[i].order.value = SeenMaxOrder + 1 + Cardinality(OrderlessBefore(i))

\* "b" inserted before "a", both order-less, next to an explicitly ordered one
C4_Witness ==
  /\ Normalized
  /\ ExplicitKeys # {}
  /\ \E i, j \in OrderlessKeys :
       /\ i < j
       /\ InEntries[i].name = "b"
       /\ InEntries[j].name = "a"
       /\ OutEntries[j].order.value + 1 = OutEntries[i].order.value

\* C5: normalizing the normalized document again returns it unchanged, and
\* the result of a normalization does not depend on the run (sort engine).
C5_Idempotent ==
  /\ (round = 1 /\ promise = "fulfilled") => pipelineObj = firstResult
  /\ Normalized =>
       \A e \in SortEngines : ThenCallback(response, e).value = pipelineObj

C5_Witness ==
  /\ round = 1
  /\ promise = "fulfilled"
  /\ firstInput.settings = Undefined
  /\ OrderlessKeys # {}
  /\ ExplicitKeys # {}

\* the callback of lines 35-77 has run on a payload
CallbackRan == response # Undefined /\ promise \in {"fulfilled", "rejected"}

\* C6: after normalization settings, parameters and services are present,
\* absent auto_eviction / data_passing_memory_size are false / "1GB",
\* fields present on input keep their value, and a successfully parsed
\* definition never makes the normalization fail.
C6_Defaults ==
  /\ (CallbackRan /\ response.success /\ response.pipeline_json.wellFormed)
       => promise = "fulfilled"
  /\ Normalized =>
       /\ pipelineObj.settings.type = "object"
       /\ pipelineObj.parameters.type = "object"
       /\ pipelineObj.services.type = "object"
       /\ IF firstInput.settings = Undefined
            THEN /\ pipelineObj.settings.auto_eviction = Bool(FALSE)
                 /\ pipelineObj.settings.data_passing_memory_size = Str("1GB")
            ELSE /\ pipelineObj.settings.auto_eviction =
                      IF firstInput.settings.auto_eviction = Undefined
                        THEN Bool(FALSE) ELSE firstInput.settings.auto_eviction
                 /\ pipelineObj.settings.data_passing_memory_size =
                      IF firstInput.settings.data_passing_memory_size = Undefined
                        THEN Str("1GB")
                        ELSE firstInput.settings.data_passing_memory_size
       /\ firstInput.parameters # Undefined
            => pipelineObj.parameters = firstInput.parameters
       /\ firstInput.parameters = Undefined => pipelineObj.parameters = EmptyObject
       /\ firstInput.services = Undefined => OutEntries = <<>>
       /\ firstInput.services # Undefined =>
            /\ Len(OutEntries) = Len(firstInput.services.entries)
            /\ \A i \in 1..Len(OutEntries) :
                 /\ OutEntries[i].name = firstInput.services.entries[i].name
                 /\ HadOrder(i) => OutEntries[i].order = InEntries[i].order

C6_Witness ==
  /\ Normalized
  /\ firstInput.settings = Undefined
  /\ firstInput.parameters = Undefined
  /\ firstInput.services = Undefined
  /\ pipelineObj.settings.data_passing_memory_size = Str("1GB")

\* C7: fetchPipelineJson rejects whenever the payload has success false and
\* whenever pipeline_json is malformed; no definition is produced and the
\* failure is the error of the cache entry, not its data.
C7_FailureRejects ==
  (CallbackRan /\ (~response.success \/ ~response.pipeline_json.wellFormed)) =>
    /\ promise = "rejected"
    /\ pipelineObj = Undefined
    /\ thrown # Undefined
    /\ swr.error = thrown
    /\ swr.data = Undefined
    /\ ~swr.isValidating

C7_Witness ==
  /\ CallbackRan
  /\ ~response.success
  /\ response.pipeline_json.wellFormed
  /\ promise = "rejected"
  /\ swr.error = Str("Failed to fetch pipeline.json")

\* ------------------------------------------------ handleDelete: properties
\* the file address of the active pipeline's own definition file
ActivePipelineFile ==
  [root |-> ProjectDir, path |-> <<"/">> \o activePipeline.path]

\* some target is the active pipeline's definition file or a directory above it
ActivePipelineDeleted ==
  /\ activePipeline # Undefined
  /\ \E i \in 1..Len(filesToDelete) :
       LET target == unpackPath(filesToDelete[i])
       IN /\ target.root = ActivePipelineFile.root
          /\ \/ target.path = ActivePipelineFile.path
             \/ /\ endsWith(target.path, <<"/">>)
                /\ startsWith(ActivePipelineFile.path, target.path)

\* C8: after a confirmed deletion completes successfully, navigation to the
\* pipeline listing is triggered if and only if a deleted target is the
\* active pipeline's definition file (same root and path) or an ancestor
\* directory of it.
C8_RedirectIffActiveDeleted ==
  phase = "done" => (navigated <=> ActivePipelineDeleted)

\* the only target is a `.orchest` file deleted directly
SoleTargetIsPipelineFile ==
  /\ Len(filesToDelete) = 1
  /\ endsWith(unpackPath(filesToDelete[1]).path, <<".orchest">>)

\* C9: whenever findPipelineFiles reports an impacted pipeline file, the
\* confirmation shows the list, except when the sole target is itself a
\* `.orchest` file.
C9_ImpactShown ==
  (phase = "confirming" /\ Len(dialog.impacted) > 0) =>
    (dialog.showsPipelineFilePaths <=> ~SoleTargetIsPipelineFile)

SomeDeleteFailed == \E i \in 1..Len(deleteStatus) : deleteStatus[i] = "failed"

\* C10: if any deleteFile call of a confirmed deletion rejects, the pipeline
\* list is neither refreshed nor dispatched, no navigation is triggered and
\* the confirm callback does not complete with success.
C10_FailureAborts ==
  SomeDeleteFailed =>
    /\ phase \in {"deleting", "rejected"}
    /\ ~dispatched
    /\ pipelines = fetchPipelines(InitialFiles)
    /\ ~navigated
    /\ ~resolved

\* one delete failed, another one succeeded, and the callback has rejected
C10_Witness ==
  /\ phase = "rejected"
  /\ \E i, j \in 1..Len(deleteStatus) :
       deleteStatus[i] = "failed" /\ deleteStatus[j] = "ok"
  /\ ~dispatched /\ ~navigated /\ ~resolved

\* positions in `calls` of the calls to op
CallsTo(op) == {i \in 1..Len(calls) : calls[i].op = op}

Called(op) == CallsTo(op) # {}

\* every call to op1 comes before every call to op2
AllBefore(op1, op2) == \A i \in CallsTo(op1) : \A j \in CallsTo(op2) : i < j

\* C11: on confirm one deleteFile call per target is issued, all at once;
\* fetchPipelines is called only after every delete call has completed; the
\* list is dispatched before the redirect is decided; resolve(true) comes
\* last.
C11_ExecutionOrder ==
  /\ Called("onConfirm") =>
       /\ Len(deleteStatus) = Len(filesToDelete)
       /\ Cardinality(CallsTo("deleteFile")) = Len(filesToDelete)
       /\ \A i \in 1..Len(filesToDelete) :
            \E k \in CallsTo("onConfirm") :
              /\ k + i \in CallsTo("deleteFile")
              /\ calls[k + i].arg = unpackPath(filesToDelete[i])
  /\ Called("fetchPipelines") =>
       /\ \A i \in 1..Len(deleteStatus) : deleteStatus[i] = "ok"
       /\ AllBefore("deleteFile", "fetchPipelines")
  /\ dispatched <=> Called("dispatch")
  /\ Called("dispatch") =>
       /\ AllBefore("fetchPipelines", "dispatch")
       /\ Called("fetchPipelines")
       /\ AllBefore("dispatch", "shouldRedirect")
  /\ AllBefore("shouldRedirect", "navigateTo")
  /\ resolved <=> Called("resolve")
  /\ Called("resolve") =>
       /\ CallsTo("resolve") = {Len(calls)}
       /\ Called("dispatch") /\ Called("shouldRedirect")
       /\ phase = "done"

\* two targets were deleted, the list refreshed and the callback resolved
C11_Witness ==
  /\ phase = "done"
  /\ Len(filesToDelete) = 2
  /\ resolved
  /\ Called("navigateTo")

\* handleDelete returns at line 129
ReturnsEarly ==
  \/ pipelineReadOnlyReason # Undefined
  \/ contextMenuPath = Undefined
  \/ projectUuid = Undefined

\* C12: no deleteFile call, no refresh and no navigation happens unless the
\* user confirmed the dialog opened by this handleDelete invocation; and
\* with a read-only pipeline, no context path or no project uuid handleDelete
\* does nothing at all.
C12_ConfirmationGate ==
  /\ \A op \in {"deleteFile", "fetchPipelines", "dispatch", "navigateTo", "resolve"} :
       Called(op) => /\ Called("onConfirm")
                     /\ AllBefore("onConfirm", op)
  /\ Called("onConfirm") => /\ Called("setConfirm")
                            /\ AllBefore("setConfirm", "onConfirm")
  /\ ~Called("onConfirm") =>
       /\ files = InitialFiles
       /\ deleteStatus = <<>>
       /\ ~dispatched /\ ~navigated /\ ~resolved
       /\ pipelines = fetchPipelines(InitialFiles)
  /\ ReturnsEarly =>
       /\ phase \in {"idle", "returned"}
       /\ calls = <<>>
       /\ dialog = Undefined
       /\ deleteStatus = <<>>
       /\ files = InitialFiles
       /\ filesToDelete = <<>>

\* the dialog was opened for a pipeline-definition file and dismissed
C12_Witness ==
  /\ phase = "cancelled"
  /\ Called("setConfirm")
  /\ filesToDelete = <<<<ProjectDir, ":", "/", "p", ".orchest">>>>
  /\ files = InitialFiles

\* the targets of the deleteFile calls, in call order
DeleteTargets ==
  LET idx == CallsTo("deleteFile")
      first == CHOOSE i \in idx : \A j \in idx : i <= j
  IN [k \in 1..Cardinality(idx) |-> calls[first + k - 1].arg]

InSelectionAtTrigger(path) ==
  \E i \in 1..Len(selectedAtTrigger) : selectedAtTrigger[i] = path

\* C13: with the context path in the selection, deleteFile is called exactly
\* for the selected paths that lie below no other selected path; otherwise
\* exactly once, for the context path.  The targets are those of the moment
\* handleDelete was called, whatever the selection is later.
C13_EffectiveTargets ==
  Called("onConfirm") =>
    IF InSelectionAtTrigger(contextMenuPath.value)
      THEN /\ \A k \in 1..Len(DeleteTargets) :
                /\ InSelectionAtTrigger(packPath(DeleteTargets[k]))
                /\ \A m \in 1..Len(DeleteTargets) :
                     /\ k # m => DeleteTargets[k] # DeleteTargets[m]
                     /\ ~isStrictDescendant(packPath(DeleteTargets[k]),
                                            packPath(DeleteTargets[m]))
           /\ \A i \in 1..Len(selectedAtTrigger) :
                \E k \in 1..Len(DeleteTargets) :
                  \/ selectedAtTrigger[i] = packPath(DeleteTargets[k])
                  \/ isStrictDescendant(selectedAtTrigger[i],
                                        packPath(DeleteTargets[k]))
      ELSE DeleteTargets = <<unpackPath(contextMenuPath.value)>>

\* a directory and a file below it were selected, the selection was cleared
\* while the dialog was open, and only the directory was deleted
C13_Witness ==
  /\ Called("onConfirm")
  /\ Len(selectedAtTrigger) = 2
  /\ InSelectionAtTrigger(contextMenuPath.value)
  /\ selectedFiles = <<>>
  /\ DeleteTargets = <<[root |-> ProjectDir, path |-> <<"/", "a", "/">>]>>

\* the baked list and the used-in list of the current render
Baked == bakePipelines(metadata, states)

CurrentUsedIn == usedInOf(metadata, states, step, route.pipelineUuid)

HasLoadedState(meta) == \E k \in 1..Len(states) : states[k].uuid = meta.uuid

ActiveIsBaked ==
  \E i \in 1..Len(Baked) : Str(Baked[i].meta.uuid) = route.pipelineUuid

ActiveMeta ==
  (CHOOSE b \in {Baked[i] : i \in 1..Len(Baked)} :
     Str(b.meta.uuid) = route.pipelineUuid).meta

\* the address of a step file, resolved against the directory of its pipeline
AddressIn(meta, file_path) ==
  [root |-> ProjectDir, path |-> resolve(dirname(meta.path), file_path)]

\* the baked pipeline has a step at the address
RefersTo(baked, address) ==
  \E k \in 1..Len(baked.state.steps) :
    AddressIn(baked.meta, baked.state.steps[k].file_path) = address

Loaded(uuid, steps) ==
  \E i \in 1..Len(Baked) : Baked[i].state = PipelineState(uuid, steps)

\* P1 in p1/ with step x.py, P2 in the project directory with step p1/x.py
TwoPipelinesOneFile ==
  /\ Loaded("P1", <<StepData("s1", <<"x.py">>)>>)
  /\ Loaded("P2", <<StepData("s3", <<"p1", "x.py">>)>>)

\* C14: with the active step known and its pipeline baked, the used-in list
\* has exactly one entry for each baked pipeline with a step whose resolved
\* address (root and path) equals the active step's resolved address, no
\* entry for any other pipeline, in metadata order; P1 in p1/ with step x.py
\* and P2 in the project directory with step p1/x.py are listed together.
C14_UsedIn ==
  (step # Undefined /\ ActiveIsBaked) =>
    LET active == AddressIn(ActiveMeta, step.file_path)
        expected == SelectSeq(Baked, LAMBDA b : RefersTo(b, active))
        current == CurrentUsedIn
    IN /\ Len(current) = Len(expected)
       /\ \A i \in 1..Len(expected) :
            /\ current[i].meta = expected[i].meta
            /\ current[i].state = expected[i].state
            /\ \E k \in 1..Len(expected[i].state.steps) :
                 /\ current[i].step = expected[i].state.steps[k]
                 /\ AddressIn(expected[i].meta, current[i].step.file_path)
                      = active
       /\ \A i, j \in 1..Len(current) :
            i # j => current[i].meta.uuid # current[j].meta.uuid
       /\ (TwoPipelinesOneFile /\ route.pipelineUuid \in {Str("P1"), Str("P2")}) =>
            /\ \E i \in 1..Len(current) : current[i].meta.uuid = "P1"
            /\ \E i \in 1..Len(current) : current[i].meta.uuid = "P2"
            /\ Len(Baked) = 2 => Len(current) = 2

\* the two pipelines of the example are loaded, P2 first in the metadata,
\* and the step of P1 is being previewed
C14_Witness ==
  /\ step = StepData("s1", <<"x.py">>)
  /\ TwoPipelinesOneFile
  /\ Len(CurrentUsedIn) = 2
  /\ CurrentUsedIn[1].meta.uuid = "P2"
  /\ CurrentUsedIn[1].step.file_path = <<"p1", "x.py">>

\* C15: bakePipelines returns exactly the metadata entries that have a state
\* with the same uuid, each paired with a state of that uuid, in metadata
\* order; entries whose state is not loaded are left out and a state without
\* metadata never appears.
C15_Bake ==
  /\ [i \in 1..Len(Baked) |-> Baked[i].meta] = SelectSeq(metadata, HasLoadedState)
  /\ \A i \in 1..Len(Baked) :
       /\ Baked[i].state.uuid = Baked[i].meta.uuid
       /\ \E k \in 1..Len(states) : states[k] = Baked[i].state
       /\ \E k \in 1..Len(metadata) : metadata[k] = Baked[i].meta

\* two pipelines are listed, their definitions loaded in the opposite order
C15_Witness ==
  /\ Len(metadata) = 2
  /\ Len(states) = 2
  /\ states[1].uuid = metadata[2].uuid
  /\ Len(Baked) = 2

\* C16: changePipeline(target) navigates exactly when the used-in list has an
\* entry for target; the navigation carries pipelineUuid = target and the
\* uuid of that entry's step, a step of the target pipeline, on the job route
\* iff the route has a job uuid; with no entry nothing changes.
C16_PipelineSwitch ==
  [][lastSwitch' # lastSwitch =>
       LET target == lastSwitch'.target
           nav == lastSwitch'.navigate
           current == CurrentUsedIn
           hits == {i \in 1..Len(current) : current[i].meta.uuid = target}
       IN IF hits = {}
            THEN /\ nav = Undefined
                 /\ UNCHANGED <<metadata, states, step, route, rendered>>
            ELSE /\ nav # Undefined
                 /\ nav.query.pipelineUuid = target
                 /\ \E i \in hits :
                      /\ nav.query.stepUuid = current[i].step.uuid
                      /\ current[i].state.uuid = target
                      /\ \E k \in 1..Len(current[i].state.steps) :
                           current[i].state.steps[k].uuid = nav.query.stepUuid
                 /\ nav.route = IF route.jobUuid # Undefined
                                  THEN "jobRunFilePreview" ELSE "filePreview"
                 /\ route'.pipelineUuid = Str(target)
                 /\ UNCHANGED <<metadata, states>>]_vars

\* a switch on a job-run preview went to P2 and its step
C16_Witness ==
  /\ lastSwitch # Undefined
  /\ lastSwitch.target = "P2"
  /\ lastSwitch.navigate # Undefined
  /\ lastSwitch.navigate.route = "jobRunFilePreview"
  /\ lastSwitch.navigate.query.stepUuid = "s3"
  /\ route.jobUuid = Str("job")
  /\ Len(CurrentUsedIn) = 2

\* C19: the switcher is rendered only when the used-in list has at least two
\* entries, and then offers exactly those pipelines; with no active step, no
\* match or a single entry nothing is rendered.
C19_DisplayRule ==
  LET current == CurrentUsedIn
  IN
    /\ rendered # Null =>
         /\ Len(current) >= 2
         /\ rendered.label = Len(current)
         /\ rendered.items = [i \in 1..Len(current) |-> current[i].meta.uuid]
    /\ Len(current) < 2 => rendered = Null
    /\ (step = Undefined \/ ~ActiveIsBaked) => rendered = Null

\* the previewed file is used by its own pipeline only
C19_Witness ==
  /\ step # Undefined
  /\ Len(Baked) = 2
  /\ Len(CurrentUsedIn) = 1
  /\ rendered = Null

\* no request is started or answered by the step
NoNetworkStep ==
  /\ promise' = promise
  /\ response' = response
  /\ swr'.isValidating = swr.isValidating

\* C17: when the component using the hook is torn down with
\* clearCacheOnUnmount = true, the entry of its key is written to undefined
\* and no fetch is started; the entry then has no data until a fetch
\* completes.  With clearCacheOnUnmount false or unset the teardown leaves
\* the entry as it is.
C17_TeardownClears ==
  [][/\ (mounted /\ ~mounted') =>
          /\ NoNetworkStep
          /\ IF clearCacheOnUnmount = Bool(TRUE)
               THEN swr'.data = Undefined /\ swr'.error = swr.error
               ELSE swr' = swr
     /\ (~mounted /\ swr.data = Undefined /\ swr'.data # Undefined) =>
          (promise = "responded" /\ promise' = "fulfilled")]_vars

\* a fetched definition was in the cache and the teardown removed it
C17_Witness ==
  /\ ~mounted
  /\ clearCacheOnUnmount = Bool(TRUE)
  /\ promise = "fulfilled"
  /\ pipelineObj # Undefined
  /\ swr.data = Undefined

\* what a setPipelineJson argument leaves in the entry
Written(data, current) ==
  IF data.kind = "value" THEN data.value
  ELSE IF data.kind = "producer" THEN Producer(current)
  ELSE Undefined

\* C18: setPipelineJson(value | producer | undefined) starts no fetch and
\* the entry of the key holds the written data right after the call; without
\* a cache key no fetch is ever issued.
C18_LocalWrites ==
  /\ [][lastSet' # lastSet =>
          /\ NoNetworkStep
          /\ swr'.error = swr.error
          /\ IF cacheKey = Undefined
               THEN swr' = swr
               ELSE swr'.data = Written(lastSet'.data, swr.data)]_vars
  /\ [](cacheKey = Undefined =>
          /\ promise = "none"
          /\ response = Undefined
          /\ swr = [data |-> Undefined, error |-> Undefined, isValidating |-> FALSE])

\* a producer was applied to the cached definition while a request was in
\* flight
C18_Witness ==
  /\ lastSet.data # Undefined
  /\ lastSet.data.kind = "producer"
  /\ swr.data = [EditedDoc EXCEPT !.parameters = EmptyObject]
  /\ promise = "pending"
  /\ swr.isValidating

Marked(id) ==
  \E i \in 1..Len(projectsBeingDeleted) : projectsBeingDeleted[i] = id

Settled(id) == requests[id] \in {"resolved", "rejected"}

\* C20: the uuid of a project is in projectsBeingDeleted from the request of
\* its deletion until its DELETE request has settled and requestDeleteProject
\* resumed; it is always eventually removed after the request settled, on
\* success and on failure; a marker is removed only by its own deletion; and
\* with no deletion under way the list is empty.
C20_MarkerLifecycle ==
  /\ [](\A id \in ProjectUuids :
          /\ Marked(id) <=> requests[id] \in {"pending", "resolved", "rejected"}
          /\ Cardinality({i \in 1..Len(projectsBeingDeleted) :
                            projectsBeingDeleted[i] = id}) <= 1)
  /\ []((\A id \in ProjectUuids : requests[id] \in {"none", "finished"})
          => projectsBeingDeleted = <<>>)
  /\ [][\A id \in ProjectUuids :
          (Marked(id) /\ ~Marked(id)') =>
            (Settled(id) /\ requests'[id] = "finished")]_vars
  /\ \A id \in ProjectUuids : Settled(id) ~> ~Marked(id)

\* the deletion of "a" failed and its marker is gone while the deletion of
\* "b" is still under way
C20_Witness ==
  /\ requests["a"] = "finished"
  /\ "a" \in alerts
  /\ IsListed("a")
  /\ requests["b"] = "pending"
  /\ projectsBeingDeleted = <<"b">>

\* the step is the resumption of requestDeleteProject(id) after its await
Resumes(id, outcome) == requests[id] = outcome /\ requests'[id] = "finished"

\* C21: a DELETE that succeeded removes exactly its project from the list
\* and keeps all others in place, whatever the order in which deletions
\* complete; a DELETE that failed leaves the list as it is and raises an
\* alert; the active project is cleared when its deletion is requested and
\* stays cleared when the request fails.
C21_DeletionOutcome ==
  /\ [][\A id \in ProjectUuids :
          /\ Resumes(id, "resolved") =>
               /\ ~IsListed(id)'
               /\ \A other \in ProjectUuids \ {id} : IsListed(other)' <=> IsListed(other)
               /\ Len(projects') = Len(projects) - (IF IsListed(id) THEN 1 ELSE 0)
               /\ \A i, j \in 1..Len(projects') :
                    i < j => \E k, m \in 1..Len(projects) :
                               k < m /\ projects[k] = projects'[i] /\ projects[m] = projects'[j]
               /\ alerts' = alerts
               /\ activeProjectUuid' = activeProjectUuid
          /\ Resumes(id, "rejected") =>
               /\ projects' = projects
               /\ id \in alerts'
               /\ activeProjectUuid' = activeProjectUuid
          /\ (requests[id] # "pending" /\ requests'[id] = "pending") =>
               /\ activeProjectUuid' = IF activeProjectUuid = Str(id)
                                         THEN Undefined ELSE activeProjectUuid
               /\ projects' = projects
               /\ alerts' = alerts]_vars
  /\ [][projects' # projects => \E id \in ProjectUuids : Resumes(id, "resolved")]_vars
  /\ [](\A id \in ProjectUuids :
          /\ requests[id] \in {"pending", "resolved", "rejected"} =>
               activeProjectUuid # Str(id)
          /\ ~IsListed(id) => requests[id] = "finished"
          /\ (requests[id] = "finished" /\ id \notin alerts) => ~IsListed(id))

\* the deletion of "a", the active project, failed and that of "b"
\* succeeded: "a" alone is listed and no project is active
C21_Witness ==
  /\ requests["a"] = "finished"
  /\ requests["b"] = "finished"
  /\ alerts = {"a"}
  /\ projects = <<"a">>
  /\ activeProjectUuid = Undefined
  /\ requested = 2

\* a baked pipeline other than the route's has a step at the address the
\* active step would have in the route's pipeline
OtherPipelineRefersToStep ==
  \E u \in Uuids : \E i \in 1..Len(Baked) :
    /\ route.pipelineUuid = Str(u)
    /\ Baked[i].meta.uuid # u
    /\ RefersTo(Baked[i], AddressIn(PipelineMetaData(u), step.file_path))

====
